---- MODULE Spec2Model ----
\* A model of vectorman's Mapbox Vector Tile encoder (src/vectorman/mvt.py):
\* the command/zigzag integer encodings, the geometry command stream writer,
\* the per-layer key/value dictionary context, and the tile assembly done by
\* MVTTransformer.from_geojson_vt.
EXTENDS Integers, Sequences, FiniteSets, TLC

VARIABLES
    pc,         \* position of the transformer: "idle", "layers", "features"
    input,      \* the `layers` argument of the running/last from_geojson_vt call
    mapping,    \* entries of `mapping` not yet handed to _write_layer
    features,   \* features of the current layer not yet written
    pbf_tile,   \* the vector_tile_pb2.Tile under construction (sequence of layers)
    context,    \* self.context, the LayerContext of the transformer
    result,     \* <<>> or <<tile>>: the value returned by the last call
    stale,      \* whether self.context held keys when the running call began
    g_pc,       \* position of _write_geometry: "start", "rings", "done"
    g_type,     \* mvt_feature["type"]
    g_in,       \* the rings of mvt_feature["geometry"] consumed so far
    g_out,      \* pbf_feature.geometry
    g_xy,       \* the running cursor <<x, y>>
    g_prev,     \* the cursor before the last ring was written
    g_seg,      \* the integers appended for the last ring
    z_pc,       \* position of the zigzag round trip: "start", "encoded", "decoded"
    z_v,        \* the value handed to zigzag
    z_out,      \* zigzag(z_v), as a wide integer
    z_back,     \* the decoding of z_out, as a wide integer
    c_pc,       \* position of the command round trip: "start", "encoded", "decoded"
    c_id,       \* the command id handed to command
    c_count,    \* the repeat count handed to command
    c_out,      \* command(c_id, c_count)
    c_dec       \* the <<id, count>> decoded from c_out

mainVars == <<pc, input, mapping, features, pbf_tile, context, result, stale>>
geomVars == <<g_pc, g_type, g_in, g_out, g_xy, g_prev, g_seg>>
zigVars == <<z_pc, z_v, z_out, z_back>>
cmdVars == <<c_pc, c_id, c_count, c_out, c_dec>>
vars == <<mainVars, geomVars, zigVars, cmdVars>>

-----------------------------------------------------------------------------
\* Bounds of the model.

\* longest ring drawn from the enumerated point set
MaxRingLen == 3
\* most rings in one LINESTRING/POLYGON feature
MaxRings == 2
\* most points in one POINT feature
MaxPoints == 3
\* most entries in one layer-assignment mapping
MaxLayers == 2
\* most features in one layer-assignment mapping (summed over its entries)
MaxFeatures == 2
\* zigzag is tried on every value of -ZigSmall..ZigSmall and near the 16/30/31-bit edges
ZigSmall == 20
\* command is tried on every repeat count of 0..CmdSmall and at the largest
\* counts whose header fits 31 bits
CmdSmall == 20

-----------------------------------------------------------------------------
\* Python integers are unbounded. A wide integer [hi, lo] stands for
\* hi * 65536 + lo with lo in 0..65535 (two's complement, sign carried by hi),
\* so that results beyond 32 bits can be computed.

Pow2(n) == 2 ^ n

Wide(v) == [hi |-> v \div 65536, lo |-> v % 65536]

Narrow(w) == (w.hi * 65536) + w.lo

\* Python's ^ on two integers (infinite two's complement)
RECURSIVE BitXor(_, _)
BitXor(a, b) ==
    IF a = 0 THEN b
    ELSE IF b = 0 THEN a
    ELSE IF a = -1 /\ b = -1 THEN 0
    ELSE (2 * BitXor(a \div 2, b \div 2)) + (((a % 2) + (b % 2)) % 2)

WXor(a, b) == [hi |-> BitXor(a.hi, b.hi), lo |-> BitXor(a.lo, b.lo)]

\* Python's << by k
RECURSIVE WShl(_, _)
WShl(w, k) ==
    IF k = 0 THEN w
    ELSE WShl([hi |-> (2 * w.hi) + ((2 * w.lo) \div 65536), lo |-> (2 * w.lo) % 65536], k - 1)

\* Python's >> by k: arithmetic, rounding toward minus infinity
WSar(w, k) ==
    IF k >= 16 THEN Wide(w.hi \div Pow2(k - 16))
    ELSE [hi |-> w.hi \div Pow2(k),
          lo |-> ((w.hi % Pow2(k)) * Pow2(16 - k)) + (w.lo \div Pow2(k))]

WAdd(a, b) == [hi |-> a.hi + b.hi + ((a.lo + b.lo) \div 65536), lo |-> (a.lo + b.lo) % 65536]

WNeg(a) == IF a.lo = 0 THEN [hi |-> 0 - a.hi, lo |-> 0]
           ELSE [hi |-> 0 - a.hi - 1, lo |-> 65536 - a.lo]

-----------------------------------------------------------------------------
\* CommandID
MOVE_TO == 1
LINE_TO == 2
CLOSE_PATH == 7

\* vector_tile_pb2.Tile.GeomType
POINT == 1
LINESTRING == 2
POLYGON == 3

\* a header that leaves only two bits to the command id
commandShift2(cmd, length) == (length * 4) + (cmd % 8)

\* command(cmd, length): (length << 3) + (cmd & 0x7)
command(cmd, length) == (length * 8) + (cmd % 8)

\* a zigzag with the sign taken one bit too low
zigzagShift30(value) == WXor(WShl(Wide(value), 1), WSar(Wide(value), 30))

\* zigzag(value): (value << 1) ^ (value >> 31)
zigzag(value) == WXor(WShl(Wide(value), 1), WSar(Wide(value), 31))

-----------------------------------------------------------------------------
\* _write_geometry

\* the inner loop with a LineTo header that counts the first point too
RECURSIVE WritePointsLineToAll(_, _, _, _, _)
WritePointsLineToAll(type, ring, line_count, i, st) ==
    IF i >= line_count THEN st
    ELSE
        LET g0 == IF i = 1 /\ type # POINT
                  THEN Append(st.geometry, command(LINE_TO, line_count))
                  ELSE st.geometry
            diff_x == ring[i + 1][1] - st.x
            diff_y == ring[i + 1][2] - st.y
        IN  WritePointsLineToAll(type, ring, line_count, i + 1,
                [geometry |-> g0 \o <<Narrow(zigzag(diff_x)), Narrow(zigzag(diff_y))>>,
                 x |-> st.x + diff_x,
                 y |-> st.y + diff_y])

\* the body of `for i in range(0, line_count)`, from index i (0-based) on;
\* st = [geometry, x, y]
RECURSIVE WritePoints(_, _, _, _, _)
WritePoints(type, ring, line_count, i, st) ==
    IF i >= line_count THEN st
    ELSE
        LET g0 == IF i = 1 /\ type # POINT
                  THEN Append(st.geometry, command(LINE_TO, line_count - 1))
                  ELSE st.geometry
            diff_x == ring[i + 1][1] - st.x
            diff_y == ring[i + 1][2] - st.y
        IN  WritePoints(type, ring, line_count, i + 1,
                [geometry |-> g0 \o <<Narrow(zigzag(diff_x)), Narrow(zigzag(diff_y))>>,
                 x |-> st.x + diff_x,
                 y |-> st.y + diff_y])

\* a ring written from a cursor put back at (0, 0)
WriteRingFromOrigin(type, elem, st) ==
    LET ring == IF type = POINT THEN <<elem>> ELSE elem
        position == IF type = POINT THEN Len(ring) ELSE 1
        moved == [geometry |-> Append(st.geometry, command(MOVE_TO, position)),
                  x |-> 0, y |-> 0]
        line_count == IF type = POLYGON THEN Len(ring) - 1 ELSE Len(ring)
        drawn == WritePoints(type, ring, line_count, 0, moved)
    IN  IF type = POLYGON
        THEN [drawn EXCEPT !.geometry = Append(@, command(CLOSE_PATH, 1))]
        ELSE drawn

\* a line count that keeps the closing point of a polygon ring
LineCountKeepClosing(type, ring) == Len(ring)

\* line_count: the number of points of the ring that are written
LineCount(type, ring) == IF type = POLYGON THEN Len(ring) - 1 ELSE Len(ring)

\* one pass of `for ring in mvt_geometry`: elem is the element of the geometry
\* list (a point <<x, y>> for POINT, a sequence of points otherwise)
WriteRing(type, elem, st) ==
    LET ring == IF type = POINT THEN <<elem>> ELSE elem
        position == IF type = POINT THEN Len(ring) ELSE 1
        moved == [st EXCEPT !.geometry = Append(@, command(MOVE_TO, position))]
        line_count == LineCount(type, ring)
        drawn == WritePoints(type, ring, line_count, 0, moved)
    IN  IF type = POLYGON
        THEN [drawn EXCEPT !.geometry = Append(@, command(CLOSE_PATH, 1))]
        ELSE drawn

RECURSIVE WriteRings(_, _, _)
WriteRings(type, geometry, st) ==
    IF geometry = <<>> THEN st
    ELSE WriteRings(type, Tail(geometry), WriteRing(type, Head(geometry), st))

\* the whole of _write_geometry: the command stream of one feature
_write_geometry(type, geometry) ==
    WriteRings(type, geometry, [geometry |-> <<>>, x |-> 0, y |-> 0]).geometry

-----------------------------------------------------------------------------
\* Python values as they arrive in tags and ids. A value is
\* [kind, n, s, items]: kind is type(value).__name__; n carries an int, a bool
\* (1/0) or a float counted in tenths (10 is 1.0); s carries a str; items
\* carries the elements of a list of ints.

PyInt(n) == [kind |-> "int", n |-> n, s |-> "", items |-> <<>>]
PyFloat(tenths) == [kind |-> "float", n |-> tenths, s |-> "", items |-> <<>>]
PyBool(b) == [kind |-> "bool", n |-> IF b THEN 1 ELSE 0, s |-> "", items |-> <<>>]
PyText(s) == [kind |-> "str", n |-> 0, s |-> s, items |-> <<>>]
PyNone == [kind |-> "NoneType", n |-> 0, s |-> "", items |-> <<>>]
PyList(items) == [kind |-> "list", n |-> 0, s |-> "", items |-> items]

\* ", ".join(str(i) for i in items)
RECURSIVE JoinInts(_)
JoinInts(items) ==
    IF items = <<>> THEN ""
    ELSE IF Len(items) = 1 THEN ToString(items[1])
    ELSE ToString(items[1]) \o ", " \o JoinInts(Tail(items))

\* repr of a float counted in tenths
FloatText(t) ==
    IF t >= 0 THEN ToString(t \div 10) \o "." \o ToString(t % 10)
    ELSE "-" \o ToString((0 - t) \div 10) \o "." \o ToString((0 - t) % 10)

\* f"{value}", the textual representation used in the cache key (line 272)
Format(value) ==
    CASE value.kind = "int" -> ToString(value.n)
      [] value.kind = "float" -> FloatText(value.n)
      [] value.kind = "bool" -> (IF value.n = 1 THEN "True" ELSE "False")
      [] value.kind = "str" -> value.s
      [] value.kind = "NoneType" -> "None"
      [] value.kind = "list" -> "[" \o JoinInts(value.items) \o "]"

\* json.dumps(value) for the kinds that get escaped (line 231)
JsonDumps(value) ==
    CASE value.kind = "NoneType" -> "null"
      [] value.kind = "list" -> "[" \o JoinInts(value.items) \o "]"
      [] value.kind = "bool" -> (IF value.n = 1 THEN "true" ELSE "false")
      [] value.kind = "str" -> "\"" \o value.s \o "\""
      [] value.kind = "int" -> ToString(value.n)
      [] value.kind = "float" -> FloatText(value.n)

\* isinstance(value, checktype); bool is a subclass of int
IsInstance(value, checktype) ==
    CASE checktype = "int" -> value.kind \in {"int", "bool"}
      [] checktype = "float" -> value.kind = "float"
      [] checktype = "bool" -> value.kind = "bool"
      [] checktype = "str" -> value.kind = "str"

\* truth value of a Python value (line 342)
Truthy(value) ==
    CASE value.kind \in {"int", "bool", "float"} -> value.n # 0
      [] value.kind = "str" -> value.s # ""
      [] value.kind = "NoneType" -> FALSE
      [] value.kind = "list" -> value.items # <<>>

\* int(value) for the numeric kinds (line 343): floats truncate toward zero
IntOf(value) ==
    IF value.kind = "float"
    THEN (IF value.n >= 0 THEN value.n \div 10 ELSE 0 - ((0 - value.n) \div 10))
    ELSE value.n

-----------------------------------------------------------------------------
\* _write_value

\* a Tile.Value with no variant populated; a populated variant is <<content>>
EmptyValue == [string_value |-> <<>>, double_value |-> <<>>, int_value |-> <<>>, bool_value |-> <<>>]

\* a destination table that tries bool before int
destinationsBoolFirst ==
    << <<"string_value", "str">>, <<"double_value", "float">>,
       <<"bool_value", "bool">>, <<"int_value", "int">> >>

\* destinations, in the dict's insertion order (lines 234-239)
destinations ==
    << <<"string_value", "str">>, <<"double_value", "float">>,
       <<"int_value", "int">>, <<"bool_value", "bool">> >>

\* setattr(pbf_value, chosen_destination, value) (line 250)
SetAttr(chosen_destination, value) ==
    CASE chosen_destination = "string_value" -> [EmptyValue EXCEPT !.string_value = <<value.s>>]
      [] chosen_destination = "double_value" -> [EmptyValue EXCEPT !.double_value = <<value.n>>]
      [] chosen_destination = "int_value" -> [EmptyValue EXCEPT !.int_value = <<value.n>>]
      [] chosen_destination = "bool_value" -> [EmptyValue EXCEPT !.bool_value = <<value.n = 1>>]

\* _write_value: [raised, value]; raised is the "Could not select destination"
\* exception of line 247
_write_value(value0) ==
    LET should_escape == ~ \E checktype \in {"int", "float", "bool", "str"} :
                              IsInstance(value0, checktype)
        value == IF should_escape THEN PyText(JsonDumps(value0)) ELSE value0
        matching == {i \in 1..Len(destinations) : IsInstance(value, destinations[i][2])}
    IN  IF matching = {}
        THEN [raised |-> TRUE, value |-> EmptyValue]
        ELSE LET first == CHOOSE i \in matching : \A j \in matching : i <= j
             IN  [raised |-> FALSE, value |-> SetAttr(destinations[first][1], value)]

-----------------------------------------------------------------------------
\* LayerContext and _write_properties

NoFunction == [k \in {} |-> 0]

\* LayerContext.__init__ (lines 74-82); feature is <<>> for None
LayerContext ==
    [keys |-> <<>>, values |-> <<>>, keycache |-> NoFunction,
     valuecache |-> NoFunction, feature |-> <<>>]

\* an index that points one past the last key
next_key_index_past(ctx) == Len(ctx.keys)

\* next_key_index, next_value_index
next_key_index(ctx) == Len(ctx.keys) - 1
next_value_index(ctx) == Len(ctx.values) - 1

\* dict.get: <<>> for None, <<v>> otherwise
Get(cache, key) == IF key \in DOMAIN cache THEN <<cache[key]>> ELSE <<>>

\* a test that takes index 0 for a missing entry (`if not index`)
IsNoneFalsy(cached) == cached = <<>> \/ cached = <<0>>

\* `index is None` (lines 265, 274)
IsNone(cached) == cached = <<>>

\* lines 264-268: [ctx, index]
InternKey(ctx, key) ==
    LET key_index == Get(ctx.keycache, key)
    IN  IF IsNone(key_index)
        THEN LET appended == [ctx EXCEPT !.keys = Append(@, key)]
                 index == next_key_index(appended)
             IN  [ctx |-> [appended EXCEPT !.keycache = (key :> index) @@ @],
                  index |-> index]
        ELSE [ctx |-> ctx, index |-> key_index[1]]

\* value_key of line 272
ValueKey(value) == value.kind \o ":" \o Format(value)

\* lines 272-277: [ctx, index]
InternValue(ctx, value) ==
    LET value_key == ValueKey(value)
        value_index == Get(ctx.valuecache, value_key)
    IN  IF IsNone(value_index)
        THEN LET appended == [ctx EXCEPT !.values = Append(@, value)]
                 index == next_value_index(appended)
             IN  [ctx |-> [appended EXCEPT !.valuecache = (value_key :> index) @@ @],
                  index |-> index]
        ELSE [ctx |-> ctx, index |-> value_index[1]]

\* _write_properties: the loop over mvt_feature["tags"].items(), a sequence of
\* <<key, value>> in the dict's iteration order; [ctx, tags]
RECURSIVE WriteTags(_, _, _)
WriteTags(ctx, items, tags) ==
    IF items = <<>> THEN [ctx |-> ctx, tags |-> tags]
    ELSE LET k == InternKey(ctx, Head(items)[1])
             v == InternValue(k.ctx, Head(items)[2])
         IN  WriteTags(v.ctx, Tail(items), tags \o <<k.index, v.index>>)

_write_properties(ctx, mvt_feature) == WriteTags(ctx, mvt_feature.tags, <<>>)

\* _write_feature: [ctx, feature]; id is <<>> when the field is not set
_write_feature(ctx, mvt_feature) ==
    LET mvt_feature_id == mvt_feature.id
        id == IF mvt_feature_id # <<>> /\ Truthy(mvt_feature_id[1])
              THEN <<IntOf(mvt_feature_id[1])>>
              ELSE <<>>
        props == _write_properties(ctx, mvt_feature)
    IN  [ctx |-> props.ctx,
         feature |-> [id |-> id,
                      tags |-> props.tags,
                      type |-> mvt_feature.type,
                      geometry |-> _write_geometry(mvt_feature.type, mvt_feature.geometry)]]

-----------------------------------------------------------------------------
\* The geometry writer on its own: a feature type is chosen, then the rings of
\* its geometry are handed to the loop one by one.

GeomPoints == {<<0, 0>>, <<10, -3>>}

ExampleLine == << <<0, 0>>, <<10, 0>>, <<10, 10>> >>
ExamplePolygon == << <<0, 0>>, <<0, 10>>, <<10, 10>>, <<0, 0>> >>

RingSet == UNION {[1..n -> GeomPoints] : n \in 0..MaxRingLen} \cup {ExampleLine, ExamplePolygon}

PointSet == GeomPoints \cup {<<10, 10>>}

GeomTypes == {POINT, LINESTRING, POLYGON}

InitGeom ==
    /\ g_pc = "start"
    /\ g_type = POINT
    /\ g_in = <<>>
    /\ g_out = <<>>
    /\ g_xy = <<0, 0>>
    /\ g_prev = <<0, 0>>
    /\ g_seg = <<>>

\* lines 294-296: the type is read and the cursor starts at (0, 0)
GeomBegin(type) ==
    /\ g_pc \in {"start", "done"}
    /\ g_pc' = "rings"
    /\ g_type' = type
    /\ g_in' = <<>>
    /\ g_out' = <<>>
    /\ g_xy' = <<0, 0>>
    /\ g_prev' = <<0, 0>>
    /\ g_seg' = <<>>
    /\ UNCHANGED <<mainVars, zigVars, cmdVars>>

\* lines 298-328: one pass of the loop over the geometry
GeomRing(elem) ==
    /\ g_pc = "rings"
    /\ Len(g_in) < (IF g_type = POINT THEN MaxPoints ELSE MaxRings)
    /\ LET st == WriteRing(g_type, elem, [geometry |-> g_out, x |-> g_xy[1], y |-> g_xy[2]])
       IN  /\ g_out' = st.geometry
           /\ g_xy' = <<st.x, st.y>>
           /\ g_seg' = SubSeq(st.geometry, Len(g_out) + 1, Len(st.geometry))
    /\ g_prev' = g_xy
    /\ g_in' = Append(g_in, elem)
    /\ UNCHANGED <<g_pc, g_type>>
    /\ UNCHANGED <<mainVars, zigVars, cmdVars>>

\* the loop ends: the geometry list is exhausted
GeomEnd ==
    /\ g_pc = "rings"
    /\ g_pc' = "done"
    /\ UNCHANGED <<g_type, g_in, g_out, g_xy, g_prev, g_seg>>
    /\ UNCHANGED <<mainVars, zigVars, cmdVars>>

-----------------------------------------------------------------------------
\* zigzag on its own: a value is encoded, then decoded again.

ZigzagInputs ==
    (0 - ZigSmall .. ZigSmall)
    \cup {65535, 65536, -65536, -65537}
    \cup {1073741823, 1073741824, -1073741824, -1073741825}
    \cup {2147483646, 2147483647, -2147483647, -2147483647 - 1}

\* the decoding the vector tile format pairs with zigzag: (z >> 1) ^ -(z & 1)
Unzigzag(z) == WXor(WSar(z, 1), WNeg(Wide(z.lo % 2)))

InitZig ==
    /\ z_pc = "start"
    /\ z_v = 0
    /\ z_out = Wide(0)
    /\ z_back = Wide(0)

ZigzagCall(v) ==
    /\ z_pc \in {"start", "decoded"}
    /\ z_pc' = "encoded"
    /\ z_v' = v
    /\ z_out' = zigzag(v)
    /\ z_back' = Wide(0)
    /\ UNCHANGED <<mainVars, geomVars, cmdVars>>

ZigzagDecode ==
    /\ z_pc = "encoded"
    /\ z_pc' = "decoded"
    /\ z_back' = Unzigzag(z_out)
    /\ UNCHANGED <<z_v, z_out>>
    /\ UNCHANGED <<mainVars, geomVars, cmdVars>>

-----------------------------------------------------------------------------
\* _write_layer, from_vector_tile_js, from_geojson_vt

\* MVTTransformer.__init__ defaults
version == 2
extent == 4096

\* a layer start that keeps the context of the layer before
ResetContextKept(old) == old

\* self.context = LayerContext() (line 360)
ResetContext(old) == LayerContext

\* a tile that starts from the layers of the tile returned before
NewTileReused(previous) == IF previous = <<>> THEN <<>> ELSE previous[1]

\* pbf_tile = vector_tile_pb2.Tile() (line 482)
NewTile(previous) == <<>>

\* `not tile` (line 500): a missing tile record (None) is <<>>, a record with
\* a "features" entry is a non-empty dict
Falsy(tile) == tile = <<>>

\* lines 498-507: the mapping handed to from_vector_tile_js, in dict order
RECURSIVE BuildMapping(_)
BuildMapping(layers) ==
    IF layers = <<>> THEN <<>>
    ELSE LET layer == Head(layers).name
             tile == Head(layers).tile
         IN  IF Falsy(tile) THEN BuildMapping(Tail(layers))
             ELSE <<[features |-> tile[1].features, name |-> layer,
                     version |-> version, extent |-> extent]>>
                  \o BuildMapping(Tail(layers))

\* lines 484, 356-360: [ctx, tile] with a new layer appended to the tile
LayerBegin(ctx, tile, mvt_layer) ==
    [ctx |-> ResetContext(ctx),
     tile |-> Append(tile, [version |-> version, name |-> mvt_layer.name,
                            extent |-> extent, keys |-> <<>>, values |-> <<>>,
                            features |-> <<>>])]

\* lines 362-364: one pass of the loop over mvt_layer["features"]
LayerFeature(ctx, tile, mvt_feature) ==
    LET written == _write_feature([ctx EXCEPT !.feature = <<mvt_feature>>], mvt_feature)
    IN  [ctx |-> written.ctx,
         tile |-> [tile EXCEPT ![Len(tile)].features = Append(@, written.feature)]]

\* lines 366-368: [raised, tile]; the dictionaries are flattened into the layer
LayerEnd(ctx, tile) ==
    LET written == [i \in 1..Len(ctx.values) |-> _write_value(ctx.values[i])]
    IN  [raised |-> \E i \in 1..Len(written) : written[i].raised,
         tile |-> [tile EXCEPT ![Len(tile)].keys = @ \o ctx.keys,
                               ![Len(tile)].values = [i \in 1..Len(written) |-> written[i].value]]]

-----------------------------------------------------------------------------
\* The inputs of the encoder

FeatA ==
    [id |-> <<PyInt(0)>>, type |-> POINT,
     tags |-> << <<"name", PyText("x")>> >>,
     geometry |-> << <<0, 0>> >>]

FeatB ==
    [id |-> <<PyInt(7)>>, type |-> LINESTRING,
     tags |-> << <<"n", PyInt(1)>>, <<"name", PyText("x")>>, <<"ok", PyBool(TRUE)>> >>,
     geometry |-> <<ExampleLine>>]

FeatC ==
    [id |-> <<>>, type |-> POLYGON,
     tags |-> << <<"name", PyText("1")>>, <<"n", PyFloat(10)>>,
                 <<"ok", PyNone>>, <<"l", PyList(<<1, 2>>)>> >>,
     geometry |-> <<ExamplePolygon>>]

FeatureSet == {FeatA, FeatB, FeatC}

LayerNames == <<"geojson", "roads", "water", "land">>

FeatureSeqs == UNION {[1..n -> FeatureSet] : n \in 0..MaxFeatures}

\* a tile record of the index: <<>> (no tile) or <<[features]>>
TileSet == {<<>>} \cup {<<[features |-> fs]>> : fs \in FeatureSeqs}

RECURSIVE TotalFeatures(_)
TotalFeatures(tiles) ==
    IF tiles = <<>> THEN 0
    ELSE (IF Head(tiles) = <<>> THEN 0 ELSE Len(Head(tiles)[1].features))
         + TotalFeatures(Tail(tiles))

\* the layer-assignment mappings: (name, tile) entries in dict order
Inputs ==
    {[i \in 1..Len(tiles) |-> [name |-> LayerNames[i], tile |-> tiles[i]]] :
        tiles \in {t \in UNION {[1..n -> TileSet] : n \in 0..MaxLayers} :
                      TotalFeatures(t) <= MaxFeatures}}

-----------------------------------------------------------------------------
\* The transformer

InitMain ==
    /\ pc = "idle"
    /\ input = <<>>
    /\ mapping = <<>>
    /\ features = <<>>
    /\ pbf_tile = <<>>
    /\ context = LayerContext
    /\ result = <<>>
    /\ stale = FALSE

\* from_geojson_vt up to the first pass of the loop of from_vector_tile_js
FromGeojsonVt(layers) ==
    /\ pc = "idle"
    /\ pc' = "layers"
    /\ input' = layers
    /\ mapping' = BuildMapping(layers)
    /\ pbf_tile' = NewTile(result)
    /\ result' = <<>>
    /\ stale' = (context.keys # <<>>)
    /\ UNCHANGED <<features, context>>
    /\ UNCHANGED <<geomVars, zigVars, cmdVars>>

\* pbf_tile.layers.add() and _write_layer up to its loop
WriteLayerBegin ==
    /\ pc = "layers"
    /\ mapping # <<>>
    /\ LET begun == LayerBegin(context, pbf_tile, Head(mapping))
       IN  /\ context' = begun.ctx
           /\ pbf_tile' = begun.tile
    /\ features' = Head(mapping).features
    /\ mapping' = Tail(mapping)
    /\ pc' = "features"
    /\ UNCHANGED <<input, result, stale>>
    /\ UNCHANGED <<geomVars, zigVars, cmdVars>>

\* one feature of the layer: _write_feature
WriteFeature ==
    /\ pc = "features"
    /\ features # <<>>
    /\ LET written == LayerFeature(context, pbf_tile, Head(features))
       IN  /\ context' = written.ctx
           /\ pbf_tile' = written.tile
    /\ features' = Tail(features)
    /\ UNCHANGED <<pc, input, mapping, result, stale>>
    /\ UNCHANGED <<geomVars, zigVars, cmdVars>>

\* the end of _write_layer: keys and values are written to the layer
WriteLayerEnd ==
    /\ pc = "features"
    /\ features = <<>>
    /\ LET ended == LayerEnd(context, pbf_tile)
       IN  /\ pbf_tile' = ended.tile
           /\ pc' = IF ended.raised THEN "raised" ELSE "layers"
    /\ UNCHANGED <<input, mapping, features, context, result, stale>>
    /\ UNCHANGED <<geomVars, zigVars, cmdVars>>

\* return pbf_tile (line 486)
Return ==
    /\ pc = "layers"
    /\ mapping = <<>>
    /\ pc' = "idle"
    /\ result' = <<pbf_tile>>
    /\ UNCHANGED <<input, mapping, features, pbf_tile, context, stale>>
    /\ UNCHANGED <<geomVars, zigVars, cmdVars>>

-----------------------------------------------------------------------------
\* command on its own: a header is built, then taken apart again.

CommandIDs == {MOVE_TO, LINE_TO, CLOSE_PATH}

CommandCounts == (0 .. CmdSmall) \cup {268435454, 268435455}

\* the decoding the vector tile format pairs with a header: (h & 0x7, h >> 3)
DecodeCommand(h) == <<h % 8, h \div 8>>

InitCmd ==
    /\ c_pc = "start"
    /\ c_id = MOVE_TO
    /\ c_count = 0
    /\ c_out = 0
    /\ c_dec = <<0, 0>>

CommandCall(cmd, length) ==
    /\ c_pc \in {"start", "decoded"}
    /\ c_pc' = "encoded"
    /\ c_id' = cmd
    /\ c_count' = length
    /\ c_out' = command(cmd, length)
    /\ c_dec' = <<0, 0>>
    /\ UNCHANGED <<mainVars, geomVars, zigVars>>

CommandDecode ==
    /\ c_pc = "encoded"
    /\ c_pc' = "decoded"
    /\ c_dec' = DecodeCommand(c_out)
    /\ UNCHANGED <<c_id, c_count, c_out>>
    /\ UNCHANGED <<mainVars, geomVars, zigVars>>

Init == InitMain /\ InitGeom /\ InitZig /\ InitCmd

Next ==
    \/ \E layers \in Inputs : FromGeojsonVt(layers)
    \/ WriteLayerBegin
    \/ WriteFeature
    \/ WriteLayerEnd
    \/ Return

\* the encoder driven by from_geojson_vt calls
Spec == Init /\ [][Next]_vars

NextGeom ==
    \/ \E type \in GeomTypes : GeomBegin(type)
    \/ \E elem \in (IF g_type = POINT THEN PointSet ELSE RingSet) : GeomRing(elem)
    \/ GeomEnd

\* _write_geometry driven ring by ring
SpecGeom == Init /\ [][NextGeom]_vars

NextZigzag ==
    \/ \E v \in ZigzagInputs : ZigzagCall(v)
    \/ ZigzagDecode

\* zigzag and its decoding
SpecZigzag == Init /\ [][NextZigzag]_vars

NextCommand ==
    \/ \E cmd \in CommandIDs, length \in CommandCounts : CommandCall(cmd, length)
    \/ CommandDecode

\* command and its decoding
SpecCommand == Init /\ [][NextCommand]_vars

-----------------------------------------------------------------------------
\* Helpers of the properties

\* the zigzag of a delta as the format defines it: 2d, or -2d - 1 when negative
ZZ(d) == IF d >= 0 THEN 2 * d ELSE (0 - (2 * d)) - 1

\* the zigzagged deltas of points from..to of a ring, each against the point
\* before it; the first against `origin`
RECURSIVE Deltas(_, _, _, _)
Deltas(ring, from, to, origin) ==
    IF from > to THEN <<>>
    ELSE LET before == IF from = 1 THEN origin ELSE ring[from - 1]
         IN  <<ZZ(ring[from][1] - before[1]), ZZ(ring[from][2] - before[2])>>
             \o Deltas(ring, from + 1, to, origin)

Drawn(type, ring) == IF type = POLYGON THEN Len(ring) - 1 ELSE Len(ring)

\* the stream the geometry section of the specification gives for one ring
RingStream(type, ring, origin) ==
    <<(1 * 8) + 1>> \o Deltas(ring, 1, 1, origin)
    \o (IF Drawn(type, ring) > 1
        THEN <<((Drawn(type, ring) - 1) * 8) + 2>> \o Deltas(ring, 2, Drawn(type, ring), origin)
        ELSE <<>>)
    \o (IF type = POLYGON THEN <<(1 * 8) + 7>> ELSE <<>>)

\* | and & on non-negative integers, bit by bit
RECURSIVE BitOr(_, _)
BitOr(a, b) ==
    IF a = 0 THEN b
    ELSE IF b = 0 THEN a
    ELSE (2 * BitOr(a \div 2, b \div 2)) + (IF (a % 2) + (b % 2) > 0 THEN 1 ELSE 0)

RECURSIVE BitAnd(_, _)
BitAnd(a, b) ==
    IF a = 0 \/ b = 0 THEN 0
    ELSE (2 * BitAnd(a \div 2, b \div 2)) + (IF (a % 2) + (b % 2) = 2 THEN 1 ELSE 0)

\* the delta a zigzagged parameter stands for
UnZZ(z) == IF z % 2 = 0 THEN z \div 2 ELSE 0 - ((z + 1) \div 2)

\* a command stream read from position i with the cursor at `cursor`:
\* [ok, headers, points], headers the <<id, count>> met, points the absolute
\* positions reached; ok is FALSE when a header has an unknown id or a repeat
\* count of 0, a ClosePath has another count than 1, or the parameters of a
\* MoveTo or LineTo are cut short
RECURSIVE ReadStream(_, _, _, _)
ReadStream(stream, i, cursor, n) ==
    IF i > Len(stream) THEN [ok |-> n = 0, headers |-> <<>>, points |-> <<>>]
    ELSE IF n > 0
    THEN IF i + 1 > Len(stream) THEN [ok |-> FALSE, headers |-> <<>>, points |-> <<>>]
         ELSE LET at == <<cursor[1] + UnZZ(stream[i]), cursor[2] + UnZZ(stream[i + 1])>>
                  rest == ReadStream(stream, i + 2, at, n - 1)
              IN  [rest EXCEPT !.points = <<at>> \o @]
    ELSE LET id == stream[i] % 8
             count == stream[i] \div 8
             rest == ReadStream(stream, i + 1, cursor, IF id = 7 THEN 0 ELSE count)
         IN  [ok |-> /\ id \in {1, 2, 7}
                     /\ count >= 1
                     /\ (id = 7 => count = 1)
                     /\ rest.ok,
              headers |-> <<(<<id, count>>)>> \o rest.headers,
              points |-> rest.points]

\* the points of a geometry that are drawn, in order
RECURSIVE DrawnPoints(_, _)
DrawnPoints(type, geometry) ==
    IF geometry = <<>> THEN <<>>
    ELSE (IF type = POINT THEN <<Head(geometry)>>
          ELSE IF Drawn(type, Head(geometry)) >= 1
          THEN SubSeq(Head(geometry), 1, Drawn(type, Head(geometry)))
          ELSE <<>>)
         \o DrawnPoints(type, Tail(geometry))

LastOr(points, default) == IF points = <<>> THEN default ELSE points[Len(points)]

\* the header ids the specification gives for a geometry whose rings all
\* have a drawn point
RECURSIVE HeaderIds(_, _)
HeaderIds(type, geometry) ==
    IF geometry = <<>> THEN <<>>
    ELSE <<1>>
         \o (IF type # POINT /\ Drawn(type, Head(geometry)) > 1 THEN <<2>> ELSE <<>>)
         \o (IF type = POLYGON THEN <<7>> ELSE <<>>)
         \o HeaderIds(type, Tail(geometry))

IsPrefix(a, b) == Len(a) <= Len(b) /\ SubSeq(b, 1, Len(a)) = a

\* the entries of the running call's input that have a tile record
InputLayers == SelectSeq(input, LAMBDA e : e.tile # <<>>)

InputFeatures(i) == InputLayers[i].tile[1].features

\* keys of a feature list, each once, in first-seen order
RECURSIVE SeenOrder(_, _)
SeenOrder(items, seen) ==
    IF items = <<>> THEN seen
    ELSE SeenOrder(Tail(items),
                   IF \E i \in 1..Len(seen) : seen[i] = Head(items)
                   THEN seen ELSE Append(seen, Head(items)))

RECURSIVE TagKeys(_)
TagKeys(fs) ==
    IF fs = <<>> THEN <<>>
    ELSE [i \in 1..Len(Head(fs).tags) |-> Head(fs).tags[i][1]] \o TagKeys(Tail(fs))

RECURSIVE TagValueKeys(_)
TagValueKeys(fs) ==
    IF fs = <<>> THEN <<>>
    ELSE [i \in 1..Len(Head(fs).tags) |-> ValueKey(Head(fs).tags[i][2])] \o TagValueKeys(Tail(fs))

\* layers of pbf_tile whose dictionaries have been written
FinishedLayers == IF pc = "features" THEN 1..(Len(pbf_tile) - 1) ELSE 1..Len(pbf_tile)

Populated(value) ==
    Len(value.string_value) + Len(value.double_value)
    + Len(value.int_value) + Len(value.bool_value)

\* the Value the specification gives for a property value
ExpectedValue(value) ==
    CASE value.kind = "str" -> [EmptyValue EXCEPT !.string_value = <<value.s>>]
      [] value.kind = "float" -> [EmptyValue EXCEPT !.double_value = <<value.n>>]
      [] value.kind = "int" -> [EmptyValue EXCEPT !.int_value = <<value.n>>]
      [] value.kind = "bool" -> [EmptyValue EXCEPT !.int_value = <<value.n>>]
      [] OTHER -> [EmptyValue EXCEPT !.string_value = <<JsonDumps(value)>>]

\* the tile a transformer fresh from __init__ returns for `layers`
RECURSIVE FreshFeatures(_, _, _)
FreshFeatures(ctx, tile, fs) ==
    IF fs = <<>> THEN LayerEnd(ctx, tile).tile
    ELSE LET written == LayerFeature(ctx, tile, Head(fs))
         IN  FreshFeatures(written.ctx, written.tile, Tail(fs))

RECURSIVE FreshLayers(_, _, _)
FreshLayers(ctx, tile, todo) ==
    IF todo = <<>> THEN tile
    ELSE LET begun == LayerBegin(ctx, tile, Head(todo))
         IN  FreshLayers(begun.ctx,
                         FreshFeatures(begun.ctx, begun.tile, Head(todo).features),
                         Tail(todo))

FreshEncode(layers) == FreshLayers(LayerContext, NewTile(<<>>), BuildMapping(layers))

KeySamples == {"name", "n", "ok", "l", "id"}

ValueSamples ==
    {PyText("x"), PyText("1"), PyText("1.0"), PyInt(1), PyInt(0), PyFloat(10),
     PyBool(TRUE), PyBool(FALSE), PyNone, PyList(<<1, 2>>)}

-----------------------------------------------------------------------------
\* Properties of _write_geometry (SpecGeom)

\* C1 (as claimed): a POINT feature of n >= 1 points is written as one
\* MoveTo header with repeat count n followed by the n zigzagged delta pairs,
\* with no other header.
C1_PointSingleMoveTo ==
    (g_pc = "done" /\ g_type = POINT /\ Len(g_in) >= 1) =>
        g_out = <<(Len(g_in) * 8) + 1>> \o Deltas(g_in, 1, Len(g_in), <<0, 0>>)

\* C3 (as claimed): every LINESTRING or POLYGON ring that has a first point
\* is written as MoveTo(1) and the first point's delta, then LineTo(drawn - 1)
\* and the remaining deltas if drawn > 1, then ClosePath(1) for POLYGON.
C3_RingStreamAnyRing ==
    (g_pc = "rings" /\ g_type # POINT /\ g_in # <<>> /\ Len(g_in[Len(g_in)]) >= 1) =>
        g_seg = RingStream(g_type, g_in[Len(g_in)], g_prev)

\* C3 (amended): the same for every LINESTRING or POLYGON ring with
\* drawn >= 1; a ring with drawn <= 0 gets MoveTo(1) with no parameters (and
\* ClosePath(1) for POLYGON). The two example streams are as stated.
C3_RingStream ==
    /\ (g_pc = "rings" /\ g_type # POINT /\ g_in # <<>>) =>
          LET ring == g_in[Len(g_in)]
          IN  IF Drawn(g_type, ring) >= 1
              THEN g_seg = RingStream(g_type, ring, g_prev)
              ELSE g_seg = <<9>> \o (IF g_type = POLYGON THEN <<15>> ELSE <<>>)
    /\ (g_type = LINESTRING /\ g_in = <<ExampleLine>>) =>
          g_out = <<9, 0, 0, 18, 20, 0, 0, 20>>
    /\ (g_type = POLYGON /\ g_in = <<ExamplePolygon>>) =>
          g_out = <<9, 0, 0, 18, 0, 20, 20, 0, 15>>

\* C3 witness: the example polygon ring written after another ring
C3_Witness ==
    /\ g_pc = "rings"
    /\ g_type = POLYGON
    /\ Len(g_in) = 2
    /\ g_in[2] = ExamplePolygon
    /\ g_prev = <<10, -3>>
    /\ g_seg = <<9, 19, 6, 18, 0, 20, 20, 0, 15>>

\* C12: the cursor starts at (0, 0) in every feature and is never put back
\* between rings: it is always the last point drawn in this feature, the first
\* delta of a LINESTRING/POLYGON ring is taken against the last point drawn
\* before it, and adding up the emitted deltas gives back every drawn point.
C12_CursorRunsThroughRings ==
    /\ g_xy = LastOr(DrawnPoints(g_type, g_in), <<0, 0>>)
    /\ (g_in = <<>>) => (g_out = <<>> /\ g_xy = <<0, 0>>)
    /\ (g_in # <<>>) =>
          g_prev = LastOr(DrawnPoints(g_type, SubSeq(g_in, 1, Len(g_in) - 1)), <<0, 0>>)
    /\ (g_type # POINT /\ g_in # <<>> /\ Drawn(g_type, g_in[Len(g_in)]) >= 1) =>
          LET first == g_in[Len(g_in)][1]
          IN  /\ UnZZ(g_seg[2]) = first[1] - g_prev[1]
              /\ UnZZ(g_seg[3]) = first[2] - g_prev[2]
    /\ (g_type # POINT /\ \A k \in 1..Len(g_in) : Drawn(g_type, g_in[k]) >= 1) =>
          ReadStream(g_out, 1, <<0, 0>>, 0).points = DrawnPoints(g_type, g_in)

\* C12 witness: the second ring of a polygon starts from (10, 10), the last
\* point drawn of the first ring, not from its dropped closing point (0, 0)
C12_Witness ==
    /\ g_pc = "rings"
    /\ g_type = POLYGON
    /\ g_in = <<ExamplePolygon, << <<10, -3>>, <<0, 0>>, <<10, -3>> >> >>
    /\ g_prev = <<10, 10>>
    /\ g_seg = <<9, 0, 25, 10, 19, 6, 15>>
    /\ g_xy = <<0, 0>>

\* C13 (as claimed): for a feature whose rings all have at least one point
\* the stream is well formed: every MoveTo/LineTo header has a count c >= 1
\* and is followed by exactly 2c parameters, every ClosePath has count 1 and
\* no parameters; a feature with no ring has an empty stream.
C13_WellFormedNonEmptyRings ==
    /\ (g_in = <<>>) => g_out = <<>>
    /\ (\A k \in 1..Len(g_in) : g_type = POINT \/ Len(g_in[k]) >= 1) =>
          ReadStream(g_out, 1, <<0, 0>>, 0).ok

\* C13 (amended): the same for a feature whose rings all have a drawn point
\* (drawn >= 1: one point for POINT and LINESTRING, two for POLYGON); the
\* headers are then one MoveTo per ring, a LineTo where drawn > 1 and a
\* ClosePath per POLYGON ring.
C13_WellFormed ==
    /\ (g_in = <<>>) => g_out = <<>>
    /\ (\A k \in 1..Len(g_in) : g_type = POINT \/ Drawn(g_type, g_in[k]) >= 1) =>
          LET read == ReadStream(g_out, 1, <<0, 0>>, 0)
          IN  /\ read.ok
              /\ [h \in 1..Len(read.headers) |-> read.headers[h][1]] = HeaderIds(g_type, g_in)
              /\ Len(read.points) = Len(DrawnPoints(g_type, g_in))

\* C13 witness: a finished LINESTRING feature of a three-point ring and a
\* one-point ring
C13_Witness ==
    /\ g_pc = "done"
    /\ g_type = LINESTRING
    /\ g_in = <<ExampleLine, << <<10, -3>> >> >>
    /\ g_out = <<9, 0, 0, 18, 20, 0, 0, 20, 9, 0, 25>>

-----------------------------------------------------------------------------
\* Properties of zigzag (SpecZigzag)

\* C10: for every 32-bit v, zigzag(v) is non-negative, is 2v for v >= 0 and
\* -2v - 1 for v < 0, decodes back to v, and no other input has the same code.
C10_ZigzagRoundTrip ==
    (z_pc # "start") =>
        /\ z_out.hi >= 0
        /\ z_out = (IF z_v >= 0 THEN WAdd(Wide(z_v), Wide(z_v))
                    ELSE WAdd(WNeg(WAdd(Wide(z_v), Wide(z_v))), Wide(-1)))
        /\ (z_pc = "decoded" => z_back = Wide(z_v))
        /\ \A u \in ZigzagInputs : u # z_v => zigzag(u) # z_out

\* C10 witness: the most negative 32-bit value round-trips through 2^32 - 1
C10_Witness ==
    /\ z_pc = "decoded"
    /\ z_v = -2147483647 - 1
    /\ z_out = [hi |-> 65535, lo |-> 65535]
    /\ z_back = Wide(z_v)

-----------------------------------------------------------------------------
\* Properties of command (SpecCommand)

\* C11: for every id in {1, 2, 7} and every repeat count >= 0,
\* command(id, count) is (count << 3) | (id & 0x7), and decoding it as
\* (h & 0x7, h >> 3) gives back (id, count).
C11_CommandRoundTrip ==
    (c_pc # "start") =>
        /\ c_out = BitOr(c_count * 8, BitAnd(c_id, 7))
        /\ BitAnd(c_out, 7) = c_id
        /\ (c_pc = "decoded" => c_dec = <<c_id, c_count>>)

\* C11 witness: ClosePath with the largest count round-trips through 2^31 - 1
C11_Witness ==
    /\ c_pc = "decoded"
    /\ c_id = CLOSE_PATH
    /\ c_count = 268435455
    /\ c_out = 2147483647
    /\ c_dec = <<7, 268435455>>

-----------------------------------------------------------------------------
\* Properties of the encoder (Spec)

\* C2 (as claimed): the layers of the returned tile are exactly the entries
\* with a non-empty feature list, in input order, so every layer has a feature.
C2_EmptyLayersOmitted ==
    (pc = "idle" /\ result # <<>>) =>
        LET kept == SelectSeq(input, LAMBDA e : e.tile # <<>> /\ e.tile[1].features # <<>>)
        IN  /\ [i \in 1..Len(result[1]) |-> result[1][i].name]
                 = [i \in 1..Len(kept) |-> kept[i].name]
            /\ \A i \in 1..Len(result[1]) : Len(result[1][i].features) >= 1

\* C4: interning a key (value) that is present returns its index and adds
\* nothing, interning a new one appends it and returns the new last index;
\* values are told apart by (kind, text), so 1.0 and 1 differ; writing the
\* same tags twice gives the same indices and adds nothing; the dictionaries
\* only grow at the end.
C4_Interning ==
    /\ \A key \in KeySamples :
          LET r == InternKey(context, key)
          IN  IF \E i \in 1..Len(context.keys) : context.keys[i] = key
              THEN r.ctx.keys = context.keys /\ context.keys[r.index + 1] = key
              ELSE r.ctx.keys = Append(context.keys, key) /\ r.index = Len(context.keys)
    /\ \A value \in ValueSamples :
          LET r == InternValue(context, value)
          IN  IF \E i \in 1..Len(context.values) : ValueKey(context.values[i]) = ValueKey(value)
              THEN /\ r.ctx.values = context.values
                   /\ ValueKey(context.values[r.index + 1]) = ValueKey(value)
              ELSE /\ r.ctx.values = Append(context.values, value)
                   /\ r.index = Len(context.values)
    /\ LET a == InternValue(context, PyFloat(10))
           b == InternValue(a.ctx, PyInt(1))
       IN  a.index # b.index
    /\ \A f \in FeatureSet :
          LET once == _write_properties(context, f)
              twice == _write_properties(once.ctx, f)
          IN  /\ twice.tags = once.tags
              /\ twice.ctx.keys = once.ctx.keys
              /\ twice.ctx.values = once.ctx.values
              /\ IsPrefix(context.keys, once.ctx.keys)
              /\ IsPrefix(context.values, once.ctx.values)

\* C4 witness: the second feature of a layer reuses the key and the value
\* interned at index 1 by the first
C4_Witness ==
    /\ pc = "features"
    /\ features = <<>>
    /\ context.keys = <<"n", "name", "ok">>
    /\ Len(pbf_tile[Len(pbf_tile)].features) = 2
    /\ pbf_tile[Len(pbf_tile)].features[2].tags = <<1, 1>>

\* C5: each layer is built from an empty context: while a layer is written
\* the context holds exactly the keys and values of the features of this layer
\* written so far, and every finished layer's keys and values are those of its
\* own features, its first tag pair being (0, 0).
C5_FreshContextPerLayer ==
    /\ (pc = "features") =>
          LET done == SubSeq(InputFeatures(Len(pbf_tile)), 1,
                             Len(pbf_tile[Len(pbf_tile)].features))
          IN  /\ context.keys = SeenOrder(TagKeys(done), <<>>)
              /\ [i \in 1..Len(context.values) |-> ValueKey(context.values[i])]
                    = SeenOrder(TagValueKeys(done), <<>>)
    /\ \A i \in FinishedLayers :
          /\ pbf_tile[i].keys = SeenOrder(TagKeys(InputFeatures(i)), <<>>)
          /\ Len(pbf_tile[i].values) = Len(SeenOrder(TagValueKeys(InputFeatures(i)), <<>>))
          /\ \A j \in 1..Len(pbf_tile[i].features) :
                (\A k \in 1..(j - 1) : pbf_tile[i].features[k].tags = <<>>)
                /\ pbf_tile[i].features[j].tags # <<>>
                => SubSeq(pbf_tile[i].features[j].tags, 1, 2) = <<0, 0>>

\* C5 witness: a second call returns two layers that both use the key "name",
\* at index 1 in the first and at index 0 in the second
C5_Witness ==
    /\ pc = "idle"
    /\ stale
    /\ result # <<>>
    /\ Len(result[1]) = 2
    /\ result[1][1].keys = <<"n", "name", "ok">>
    /\ result[1][2].keys = <<"name">>
    /\ result[1][2].features[1].tags = <<0, 0>>

\* C6: in every emitted layer each feature's tags hold one (key index, value
\* index) pair per tag of the input feature, in order, both indices in range,
\* keys[k] being the tag's key and values[v] the resolved form of its value.
C6_TagsIndexDictionaries ==
    (pc = "idle" /\ result # <<>>) =>
        \A i \in 1..Len(result[1]) :
            LET layer == result[1][i]
            IN  /\ Len(layer.features) = Len(InputFeatures(i))
                /\ \A j \in 1..Len(layer.features) :
                      LET out == layer.features[j].tags
                          in == InputFeatures(i)[j].tags
                      IN  /\ Len(out) = 2 * Len(in)
                          /\ \A t \in 1..Len(in) :
                                LET k == out[(2 * t) - 1]
                                    v == out[2 * t]
                                IN  /\ 0 <= k /\ k < Len(layer.keys)
                                    /\ 0 <= v /\ v < Len(layer.values)
                                    /\ layer.keys[k + 1] = in[t][1]
                                    /\ layer.values[v + 1] = _write_value(in[t][2]).value

\* C6 witness: a layer of two features, the second with four tags
C6_Witness ==
    /\ pc = "idle"
    /\ result # <<>>
    /\ Len(result[1]) = 1
    /\ Len(result[1][1].features) = 2
    /\ result[1][1].features[1].tags = <<0, 0, 1, 1, 2, 2>>
    /\ result[1][1].features[2].tags = <<1, 3, 0, 4, 2, 5, 3, 6>>

\* C7 (as claimed): a feature whose id is an integer >= 0 (0 included) gets
\* that id; a feature without an id gets none.
C7_IdWritten ==
    (pc = "idle" /\ result # <<>>) =>
        \A i \in 1..Len(result[1]) :
            \A j \in 1..Len(result[1][i].features) :
                LET id == InputFeatures(i)[j].id
                IN  /\ (id # <<>> /\ id[1].kind = "int" /\ id[1].n >= 0)
                          => result[1][i].features[j].id = <<id[1].n>>
                    /\ (id = <<>>) => result[1][i].features[j].id = <<>>

\* C8: no value raises; every written Value has exactly one variant
\* populated: text in string_value, a double in double_value, an integer in
\* int_value, a boolean in int_value (never bool_value), anything else as its
\* JSON text in string_value.
C8_ValueVariants ==
    /\ pc # "raised"
    /\ \A i \in FinishedLayers :
          /\ \A v \in 1..Len(pbf_tile[i].values) :
                /\ Populated(pbf_tile[i].values[v]) = 1
                /\ pbf_tile[i].values[v].bool_value = <<>>
          /\ \A j \in 1..Len(pbf_tile[i].features) :
                \A t \in 1..Len(InputFeatures(i)[j].tags) :
                    pbf_tile[i].values[pbf_tile[i].features[j].tags[2 * t] + 1]
                        = ExpectedValue(InputFeatures(i)[j].tags[t][2])

\* C8 witness: a layer whose values hold a text, an integer, a boolean
\* written as integer 1, a double and two JSON texts
C8_Witness ==
    /\ pc = "layers"
    /\ pbf_tile # <<>>
    /\ \E i \in 1..Len(pbf_tile) :
          /\ Len(pbf_tile[i].values) = 7
          /\ pbf_tile[i].values[1] = [EmptyValue EXCEPT !.int_value = <<1>>]
          /\ pbf_tile[i].values[3] = [EmptyValue EXCEPT !.int_value = <<1>>]
          /\ pbf_tile[i].values[5] = [EmptyValue EXCEPT !.double_value = <<10>>]
          /\ pbf_tile[i].values[6] = [EmptyValue EXCEPT !.string_value = <<"null">>]
          /\ pbf_tile[i].values[7] = [EmptyValue EXCEPT !.string_value = <<"[1, 2]">>]

\* C9: whatever calls were made before on the transformer, the tile returned
\* for an input is the tile a fresh transformer returns for it.
C9_SameAsFreshTransformer ==
    (pc = "idle" /\ result # <<>>) => result[1] = FreshEncode(input)

\* C9 witness: a call made on a transformer whose context held keys returns
\* a tile of two layers with features
C9_Witness ==
    /\ pc = "idle"
    /\ stale
    /\ result # <<>>
    /\ Len(result[1]) = 2
    /\ \A i \in 1..2 : result[1][i].features # <<>>

\* no position of a sequence repeats an earlier one
NoDuplicates(items) ==
    \A a, b \in 1..Len(items) : (items[a] = items[b]) => (a = b)

\* tag values that are text, integers, doubles or booleans only
PlainTags(fs) ==
    \A j \in 1..Len(fs) : \A t \in 1..Len(fs[j].tags) :
        fs[j].tags[t][2].kind \in {"str", "int", "float", "bool"}

\* C14: in every emitted layer whose features' tag values are text, integers,
\* doubles or booleans, keys holds no text twice and values holds no two
\* entries that are the same wire Value.
C14_NoDuplicateEntries ==
    (pc = "idle" /\ result # <<>>) =>
        \A i \in 1..Len(result[1]) :
            PlainTags(InputFeatures(i)) =>
                /\ NoDuplicates(result[1][i].keys)
                /\ NoDuplicates(result[1][i].values)

====
